---- MODULE Spec2Model ----
(***************************************************************************)
(* The changeset viewer: the fetchChangesets pagination loop of App.tsx,   *)
(* the React state it shares between invocations, and the POST /api/user   *)
(* and GET /api/users handlers of the persistence server.                  *)
(*                                                                         *)
(* Timestamps are whole seconds (the code compares fixed-width ISO-8601    *)
(* strings, which order as the seconds do); an attribute the markup lacks  *)
(* is the empty string or the empty sequence, as getAttribute(..) || ""    *)
(* makes it.  csvLines is kept as the number of lines.                     *)
(***************************************************************************)
EXTENDS Integers, Sequences, FiniteSets, TLC

VARIABLES
    username,      \* App.tsx:48  the text of the input
    userStats,     \* App.tsx:49  the rows last loaded from /api/users
    currentStats,  \* App.tsx:50  the stats shown, <<>> for null
    loading,       \* App.tsx:56
    error,         \* App.tsx:57  the message shown, NullErr for null
    runs,          \* App.tsx:73-81  per invocation of fetchChangesets: its locals and where it awaits
    hist,          \* per invocation: what the upstream answered it (history, read by the properties only)
    posts,         \* App.tsx:148  per invocation: its POST /api/user: "none", "sent", the status answered, "dropped", "lost"
    gets,          \* App.tsx:62,154  the GETs of /api/users pending, by sender (0: the mount effect)
    db,            \* server: the rows of table stats, [user, edits], by id
    files          \* server: changesets/<user>.csv, user -> number of lines

vars == <<username, userStats, currentStats, loading, error,
          runs, hist, posts, gets, db, files>>

----------------------------------------------------------------------------
(* Bounds and scaled program constants *)

\* const EPOCH = "2004-01-01T00:00:00Z", in seconds of the model's clock
EPOCH == 2
\* &limit=100: the page size the request asks for, scaled
PageLimit == 2
\* now() lies this many seconds after EPOCH
WindowSpan == 1
\* seconds per calendar day (created.slice(0, 10)), scaled
DayLen == 2

\* the first second of the Date range of the runtime: toISOString throws
\* below it (scaled to lie just under EPOCH)
MinDate == EPOCH - 1
MaxTime == EPOCH + WindowSpan
Times == MinDate..MaxTime

\* invocation slots of fetchChangesets
OneRun == {1}
TwoRuns == {1, 2}
AllRuns == {1, 2}
OneUser == {"a"}
TwoUsers == {"a", "b"}
AllUsers == {"a", "b"}

----------------------------------------------------------------------------
(* Values *)

NaN == <<>>
Num(n) == <<n>>
NullErr == "null"
NullStats == <<>>
Absent == <<>>

\* a + b on JavaScript numbers: NaN is absorbing
Add(a, b) == IF a = NaN \/ b = NaN THEN NaN ELSE Num(a[1] + b[1])

\* parseInt(changesCnt, 10) on the attribute texts the model serves
ParseInt(s) ==
    CASE s = "0" -> Num(0)
      [] s = "1" -> Num(1)
      [] s = "2" -> Num(2)
      [] OTHER -> NaN

\* getAttribute("changes_count") || "0"
ChangesCnt(cs) == IF cs.changes_count = "" THEN "0" ELSE cs.changes_count

\* created.slice(0, 19): the whole timestamp in place of its day
DayOfWhole(created) == created

\* created.slice(0, 10): the calendar day of a timestamp; "" stays ""
DayOf(created) == IF created = Absent THEN Absent ELSE <<created[1] \div DayLen>>

\* created > earliest: the latest created_at is kept in place of the earliest
StrGreater(created, earliest) ==
    created # Absent /\ (earliest = Absent \/ created[1] > earliest[1])

\* created < earliest on the ISO strings ("" sorts before every timestamp)
StrLess(created, earliest) ==
    IF created = Absent THEN earliest # Absent
    ELSE earliest # Absent /\ created[1] < earliest[1]

\* "unknown"
Unknown == <<"u", "n", "k">>
\* "__proto__"
ProtoKey == <<"_", "p">>
\* values of the created_by tag: "JOSM/1.5 (12345)", "Go Map!!/1.2", scaled
Josm == <<"J", "/", "1", " ", "(">>
GoMap == <<"G", " ", "M", "/", "1">>

RECURSIVE Before(_, _)
\* s.split(c)[0]: the part of s before the first c
Before(s, c) ==
    IF s = <<>> \/ Head(s) = c THEN <<>> ELSE <<Head(s)>> \o Before(Tail(s), c)

\* without .split(" ")[0]: the name is cut at the first "/" only
EditorOfSlashOnly(cs) ==
    LET v == IF cs.created_by = <<>> THEN Unknown ELSE cs.created_by
    IN Before(v, "/")

\* tag?.getAttribute("v") || "unknown", then split("/")[0].split(" ")[0]
EditorOf(cs) ==
    LET v == IF cs.created_by = <<>> THEN Unknown ELSE cs.created_by
    IN Before(Before(v, "/"), " ")

----------------------------------------------------------------------------
(* The upstream: what one GET of the changeset listing may answer *)

\* the <changeset> elements the model serves: created_at, changes_count and
\* the v of the created_by tag ("" / <<>>: the markup has no such attribute)
Elements(T, C, G) ==
    [created_at : {Absent} \cup {<<t>> : t \in T}, changes_count : C, created_by : G]

\* a changeset of one edit made with an unnamed editor, created at second t
Plain(t) == [created_at |-> <<t>>, changes_count |-> "1", created_by |-> <<>>]

Pages(E) == UNION {[1..n -> E] : n \in 0..PageLimit}

\* a response body: text says whether it includes "<changeset", wf whether
\* it is well-formed markup, sets what getElementsByTagName("changeset")
\* finds in the parsed document (for a malformed body: whatever the parser
\* kept before its error)
Bodies(E) ==
    {b \in [text : BOOLEAN, wf : BOOLEAN, sets : Pages(E)] :
        /\ b.sets # <<>> => b.text
        /\ ~b.wf => Len(b.sets) <= 1}

\* status 0: fetch() rejects (network failure)
Statuses == {0, 200, 404, 500}

\* the bodies that come with a failure status (the code never reads them)
ErrorBodies ==
    {[text |-> FALSE, wf |-> TRUE, sets |-> <<>>],
     [text |-> TRUE, wf |-> TRUE, sets |-> <<Plain(EPOCH)>>]}

Responses(E) ==
    {resp \in [status : Statuses, body : Bodies(E)] :
        resp.status # 200 => resp.body \in ErrorBodies}

Ok(status) == status \in 200..299

\* The changesets of a user as an unchanging upstream holds them, newest
\* first.  a: more changesets in one second than a page holds, b: two
\* changesets of one second, a newer one before them.
DataOf(user) ==
    CASE user = "a" ->
           <<[Plain(MaxTime) EXCEPT !.created_by = Josm],
             [Plain(MaxTime) EXCEPT !.changes_count = "2"],
             [Plain(MaxTime) EXCEPT !.created_by = GoMap],
             [Plain(EPOCH) EXCEPT !.created_by = Josm]>>
      [] user = "b" ->
           <<[Plain(MaxTime) EXCEPT !.changes_count = "2", !.created_by = GoMap],
             Plain(EPOCH),
             [Plain(EPOCH) EXCEPT !.created_by = Josm]>>
      [] OTHER -> <<>>

\* the answer to display_name=user&time=EPOCH,windowEnd&limit=100: the
\* newest changesets of the user created in the window, a page at most
Listing(user, windowEnd) ==
    LET hit(cs) == cs.created_at[1] \in EPOCH..windowEnd
        found == SelectSeq(DataOf(user), hit)
        sets == SubSeq(found, 1, IF Len(found) < PageLimit THEN Len(found) ELSE PageLimit)
    IN [status |-> 200, body |-> [text |-> sets # <<>>, wf |-> TRUE, sets |-> sets]]

----------------------------------------------------------------------------
(* fetchChangesets: the pure parts *)

WrongUsername == "Wrong username"
NoContributions == "has no contributions yet"
FailedToFetch == "Failed to fetch"
InvalidTime == "Invalid time value"
HttpMsg(status) == IF status = 500 THEN "HTTP 500" ELSE "HTTP"

\* without line 90: only a rejected fetch and a 404 throw, and the body of
\* any other failure status is read as a page
StatusErrorNoOkTest(status) ==
    IF status = 0 THEN FailedToFetch
    ELSE IF status = 404 THEN WrongUsername
    ELSE NullErr

\* the status checks in the other order: a 404 is reported as any failure status
StatusErrorOkFirst(status) ==
    IF status = 0 THEN FailedToFetch
    ELSE IF ~Ok(status) THEN HttpMsg(status)
    ELSE IF status = 404 THEN WrongUsername
    ELSE NullErr

\* lines 88-90: what the status of a response throws (NullErr: nothing)
StatusError(status) ==
    IF status = 0 THEN FailedToFetch
    ELSE IF status = 404 THEN WrongUsername
    ELSE IF ~Ok(status) THEN HttpMsg(status)
    ELSE NullErr

\* editors[editor] = (editors[editor] || 0) + 1, editors being the object
\* literal {}: under "__proto__" the read yields Object.prototype, the sum is
\* a string, and the inherited setter drops the write of a string
Bump(editors, k) ==
    IF k = ProtoKey THEN editors
    ELSE [x \in DOMAIN editors \cup {k} |->
            IF x = k THEN (IF k \in DOMAIN editors THEN editors[k] ELSE 0) + 1
            ELSE editors[x]]

\* without line 133: earliest stays at windowEnd, so the next window ends a
\* second before this one, wherever the page's changesets lie
FoldOneKeepEarliest(acc, cs) ==
    [edits    |-> Add(acc.edits, ParseInt(ChangesCnt(cs))),
     daySet   |-> acc.daySet \cup {DayOf(cs.created_at)},
     editors  |-> Bump(acc.editors, EditorOf(cs)),
     csvLines |-> acc.csvLines + 1,
     earliest |-> acc.earliest]

\* one pass of sets.forEach: fold a changeset element into the locals
FoldOne(acc, cs) ==
    [edits    |-> Add(acc.edits, ParseInt(ChangesCnt(cs))),
     daySet   |-> acc.daySet \cup {DayOf(cs.created_at)},
     editors  |-> Bump(acc.editors, EditorOf(cs)),
     csvLines |-> acc.csvLines + 1,
     earliest |-> IF StrLess(cs.created_at, acc.earliest) THEN cs.created_at
                  ELSE acc.earliest]

\* only the first element of the page is folded
FoldFirstOnly(acc, sets) ==
    IF sets = <<>> THEN acc ELSE FoldOne(acc, Head(sets))

RECURSIVE FoldAll(_, _)
\* sets.forEach(...)
FoldAll(acc, sets) ==
    IF sets = <<>> THEN acc ELSE FoldAll(FoldOne(acc, Head(sets)), Tail(sets))

\* - 2000 in place of - 1000: the next window ends two seconds before earliest
NextWindowTwoBack(earliest) ==
    IF earliest = Absent \/ earliest[1] - 2 < MinDate THEN Absent
    ELSE <<earliest[1] - 2>>

\* without the - 1000: the next window ends at earliest itself
NextWindowAtEarliest(earliest) ==
    IF earliest = Absent \/ earliest[1] < MinDate THEN Absent ELSE earliest

\* new Date(new Date(earliest).getTime() - 1000).toISOString(): Absent when
\* toISOString throws RangeError (earliest is "" or the result leaves the
\* Date range)
NextWindow(earliest) ==
    IF earliest = Absent \/ earliest[1] - 1 < MinDate THEN Absent
    ELSE <<earliest[1] - 1>>

IdleRun ==
    [pc |-> "idle", user |-> "", windowEnd |-> MaxTime, firstLoop |-> TRUE,
     edits |-> Num(0), daySet |-> {}, editors |-> <<>>, csvLines |-> 1]

\* lines 73-81: the locals of a fresh invocation, up to its first fetch(url)
NewRun(user, now) ==
    [IdleRun EXCEPT !.pc = "fetch", !.user = user, !.windowEnd = now]

\* continue in place of break: an empty page sends the loop round again
EmptyPageContinue(run) == [kind |-> "wait", msg |-> NullErr, run |-> run]

\* lines 94 and 98: if (!xml.includes("<changeset")) break; if (!sets.length) break
EmptyPage(run) == [kind |-> "break", msg |-> NullErr, run |-> run]

\* One turn of the while loop after the response arrived (lines 89-137).
\* kind: "throw" (with msg), "break" or "wait"; run: the locals afterwards.
LoopBody(run, resp) ==
    LET body == resp.body
        acc0 == [edits |-> run.edits, daySet |-> run.daySet, editors |-> run.editors,
                 csvLines |-> run.csvLines, earliest |-> <<run.windowEnd>>]
        acc == FoldAll(acc0, body.sets)
        folded == [run EXCEPT !.firstLoop = FALSE, !.edits = acc.edits,
                              !.daySet = acc.daySet, !.editors = acc.editors,
                              !.csvLines = acc.csvLines]
        w == NextWindow(acc.earliest)
    IN  IF StatusError(resp.status) # NullErr
          THEN [kind |-> "throw", msg |-> StatusError(resp.status), run |-> run]
        ELSE IF run.firstLoop /\ ~body.text
          THEN [kind |-> "throw", msg |-> NoContributions, run |-> run]
        ELSE IF ~body.text \/ body.sets = <<>>
          THEN EmptyPage([run EXCEPT !.firstLoop = FALSE])
        ELSE IF w = Absent
          THEN [kind |-> "throw", msg |-> InvalidTime, run |-> folded]
        ELSE [kind |-> "wait", msg |-> NullErr, run |-> [folded EXCEPT !.windowEnd = w[1]]]

----------------------------------------------------------------------------
(* History of an invocation: what the upstream answered it, kept to state  *)
(* the properties; the program reads none of it                            *)

NoHist ==
    [recs |-> 0, seen |-> 0, ccSum |-> 0, pages |-> 0, last |-> "none",
     firstEmpty |-> FALSE, malformed |-> FALSE, conform |-> TRUE,
     thrown |-> NullErr, gap |-> "none", inflight |-> 0, delivered |-> FALSE,
     start |-> 0, stamps |-> {}, spread |-> 0, tags |-> <<>>]

\* changesCount of a record as the data model defines it: 0 if absent or unparseable
CountOf(cs) == IF ParseInt(ChangesCnt(cs)) = NaN THEN 0 ELSE ParseInt(ChangesCnt(cs))[1]

RECURSIVE SumCounts(_)
SumCounts(sets) == IF sets = <<>> THEN 0 ELSE CountOf(Head(sets)) + SumCounts(Tail(sets))

\* every record lies in the window [EPOCH, windowEnd] the request asked for
InWindow(sets, windowEnd) ==
    \A i \in 1..Len(sets) :
        /\ sets[i].created_at # Absent
        /\ sets[i].created_at[1] \in EPOCH..windowEnd

\* the kind of a response: "rejected" (no response), "404", "http" (another
\* failure status), "malformed", "empty" (well-formed, no changeset
\* element), "records"
KindOf(resp) ==
    IF resp.status = 0 THEN "rejected"
    ELSE IF resp.status = 404 THEN "404"
    ELSE IF ~Ok(resp.status) THEN "http"
    ELSE IF ~resp.body.wf THEN "malformed"
    ELSE IF resp.body.sets = <<>> THEN "empty"
    ELSE "records"

\* the number of changesets per value of the created_by tag, those of the
\* page sets added
Tagged(tags, sets) ==
    LET here(v) == Cardinality({i \in 1..Len(sets) : sets[i].created_by = v})
    IN [v \in DOMAIN tags \cup {sets[i].created_by : i \in 1..Len(sets)} |->
           (IF v \in DOMAIN tags THEN tags[v] ELSE 0) + here(v)]

Record(h, run, resp, out) ==
    LET k == KindOf(resp)
        n == IF k = "records" THEN Len(resp.body.sets) ELSE 0
    IN [h EXCEPT
          !.recs = @ + n,
          !.seen = @ + (IF Ok(resp.status) THEN Len(resp.body.sets) ELSE 0),
          !.tags = IF out.kind = "throw" THEN <<>> ELSE Tagged(@, resp.body.sets),
          !.stamps = IF out.kind = "throw" THEN {}
                     ELSE @ \cup {resp.body.sets[i].created_at : i \in 1..Len(resp.body.sets)},
          !.spread = IF out.kind = "throw" THEN 0
                     ELSE @ + Cardinality({resp.body.sets[i].created_at :
                                              i \in 1..Len(resp.body.sets)}),
          !.ccSum = @ + (IF k = "records" THEN SumCounts(resp.body.sets) ELSE 0),
          !.pages = @ + (IF k = "records" THEN 1 ELSE 0),
          !.last = k,
          !.firstEmpty = @ \/ (run.firstLoop /\ k = "empty"),
          !.malformed = @ \/ (k = "malformed"),
          !.conform = @ /\ k \in {"empty", "records"}
                        /\ InWindow(resp.body.sets, run.windowEnd),
          !.thrown = out.msg,
          !.gap = IF Ok(resp.status) THEN "answered" ELSE @,
          !.inflight = @ - 1]

----------------------------------------------------------------------------
(* The React component and fetchChangesets *)

\* a slot stands for one invocation; a free slot is an invocation not yet made
Free(r) == runs[r].pc = "idle"
InFlight(r) == runs[r].pc \in {"fetch", "wait", "post"}

\* <Input onChange={(e) => setUsername(e.target.value)} disabled={loading} />
SetUsername(U) ==
    /\ ~loading
    /\ \E u \in U \cup {""} : u # username /\ username' = u
    /\ UNCHANGED <<userStats, currentStats, loading, error, runs, hist, posts, gets, db, files>>

\* lines 68-88 for the invocations started in one tick: setLoading(true),
\* setError(null), setCurrentStats(null), fresh locals, the first fetch(url).
\* start maps the slots taken to the users fetched.
StartRuns(start, now) ==
    /\ loading' = TRUE
    /\ error' = NullErr
    /\ currentStats' = NullStats
    /\ runs' = [r \in DOMAIN runs |->
                  IF r \in DOMAIN start THEN NewRun(start[r], now) ELSE runs[r]]
    /\ hist' = [r \in DOMAIN hist |->
                  IF r \in DOMAIN start THEN [NoHist EXCEPT !.inflight = 1, !.start = now]
                  ELSE hist[r]]
    /\ posts' = [r \in DOMAIN posts |-> IF r \in DOMAIN start THEN "none" ELSE posts[r]]

\* the k lowest free slots of R, in order
RECURSIVE LowestFree(_, _)
LowestFree(R, k) ==
    IF k = 0 \/ {r \in R : Free(r)} = {} THEN <<>>
    ELSE LET m == CHOOSE r \in R : Free(r) /\ \A q \in R : Free(q) => r <= q
         IN <<m>> \o LowestFree(R \ {m}, k - 1)

\* <Button onClick={() => fetchChangesets(username)} disabled={!username || loading}>
ClickFetch(R, N) ==
    /\ username # ""
    /\ ~loading
    /\ Len(LowestFree(R, 1)) = 1
    /\ \E now \in N :
         StartRuns([r \in {LowestFree(R, 1)[1]} |-> username], now)
    /\ UNCHANGED <<username, userStats, gets, db, files>>

\* setInterval(() => userStats.forEach((u) => fetchChangesets(u.user)), 1200000)
PeriodicRefresh(R, N) ==
    LET k == Len(userStats)
        slots == LowestFree(R, k)
    IN /\ k > 0
       /\ Len(slots) = k
       /\ \E now \in N :
            StartRuns([r \in {slots[i] : i \in 1..k} |->
                          userStats[CHOOSE i \in 1..k : slots[i] = r].user], now)
       /\ UNCHANGED <<username, userStats, gets, db, files>>

Gone(run, pc) == [IdleRun EXCEPT !.pc = pc, !.user = run.user]

\* the catch without its return: the code after the loop runs all the same
CatchNoReturn(run) == [run EXCEPT !.pc = "post"]

\* catch (e) { setError(e.message); setLoading(false); return; }
\* (the locals of an invocation that returned are gone)
Catch(run) == Gone(run, "failed")

\* after the loop: csvText is built and the POST to /api/user is sent (lines 145-152)
AfterLoop(run) == [run EXCEPT !.pc = "post"]

\* the loop turns without the setTimeout: the next fetch(url) goes out at once
DelaySkipped(run) == [run EXCEPT !.pc = "fetch"]

\* await new Promise((r) => setTimeout(r, 1100))
Delay(run) == [run EXCEPT !.pc = "wait"]

\* The response to fetch(url) arrives, or fetch rejects: the rest of the
\* loop turn (lines 88-137), then the catch, the code after the loop, or
\* the setTimeout of the rate limit.  (await res.text() suspends once more
\* in between; the turn touches only its own locals until it is through.)
Answer(r, resp) ==
    LET out == LoopBody(runs[r], resp)
        next == CASE out.kind = "throw" -> Catch(out.run)
                  [] out.kind = "break" -> AfterLoop(out.run)
                  [] out.kind = "wait" -> Delay(out.run)
    IN
    /\ runs' = [runs EXCEPT ![r] = next]
    /\ hist' = [hist EXCEPT ![r] =
                  [Record(@, runs[r], resp, out) EXCEPT
                     !.inflight = @ + (IF next.pc = "fetch" THEN 1 ELSE 0)]]
    /\ posts' = IF next.pc = "post" THEN [posts EXCEPT ![r] = "sent"] ELSE posts
    /\ IF out.kind = "throw"
         THEN error' = out.msg /\ loading' = FALSE
         ELSE UNCHANGED <<error, loading>>
    /\ UNCHANGED <<username, userStats, currentStats, gets, db, files>>

Respond(r, A) ==
    /\ runs[r].pc = "fetch"
    /\ \E resp \in A : Answer(r, resp)

\* the timer of the rate limit fires: the loop turns and sends the next fetch(url)
TimerFired(r) ==
    /\ runs[r].pc = "wait"
    /\ runs' = [runs EXCEPT ![r].pc = "fetch"]
    /\ hist' = [hist EXCEPT ![r].gap = "waited", ![r].inflight = @ + 1]
    /\ UNCHANGED <<username, userStats, currentStats, loading, error, posts, gets, db, files>>

----------------------------------------------------------------------------
(* The persistence server and the requests to it *)

\* ON CONFLICT(user) DO NOTHING: the row of a user already stored is kept
UpsertKeepFirst(rows, user, edits) ==
    IF \E i \in 1..Len(rows) : rows[i].user = user THEN rows
    ELSE Append(rows, [user |-> user, edits |-> edits])

\* INSERT INTO stats (user, edits) VALUES (?, ?)
\* ON CONFLICT(user) DO UPDATE SET edits = excluded.edits   (user TEXT UNIQUE)
Upsert(rows, user, edits) ==
    IF \E i \in 1..Len(rows) : rows[i].user = user
      THEN [i \in 1..Len(rows) |->
              IF rows[i].user = user THEN [rows[i] EXCEPT !.edits = edits] ELSE rows[i]]
      ELSE Append(rows, [user |-> user, edits |-> edits])

\* JSON.stringify turns NaN into null, and the handler tests edits == null
\* app.post("/api/user"): 400 on a missing field, 500 on a failed db.run,
\* else the upsert, the CSV file and {success: true}.  mkdirSync or
\* writeFileSync may throw in the callback of db.run, after the upsert: the
\* row is written, the file is not, and no response is sent ("dropped").
ServerPostUser(r) ==
    /\ posts[r] = "sent"
    /\ \/ /\ runs[r].user = "" \/ runs[r].edits = NaN
          /\ posts' = [posts EXCEPT ![r] = "400"]
          /\ UNCHANGED <<db, files>>
       \/ /\ runs[r].user # "" /\ runs[r].edits # NaN
          /\ \/ /\ posts' = [posts EXCEPT ![r] = "500"]
                /\ UNCHANGED <<db, files>>
             \/ /\ posts' = [posts EXCEPT ![r] = "200"]
                /\ db' = Upsert(db, runs[r].user, runs[r].edits[1])
                /\ files' = [files EXCEPT ![runs[r].user] = <<runs[r].csvLines>>]
             \/ /\ posts' = [posts EXCEPT ![r] = "dropped"]
                /\ db' = Upsert(db, runs[r].user, runs[r].edits[1])
                /\ UNCHANGED files
    /\ UNCHANGED <<username, userStats, currentStats, loading, error, runs, hist, gets>>

\* the POST never gets an answer (it did not arrive, or the handler threw):
\* await fetch(...) rejects outside the try, so the invocation ends there
\* with an unhandled rejection
PostRejected(r) ==
    /\ posts[r] \in {"sent", "dropped"}
    /\ runs[r].pc = "post"
    /\ posts' = [posts EXCEPT ![r] = "lost"]
    /\ runs' = [runs EXCEPT ![r] = Gone(@, "crashed")]
    /\ UNCHANGED <<username, userStats, currentStats, loading, error, hist, gets, db, files>>

\* { edits, days: daySet.size, editors, csvUrl }
StatsOf(run) ==
    <<[edits |-> run.edits, days |-> Cardinality(run.daySet),
       editors |-> run.editors, csvUrl |-> run.user]>>

\* the POST is answered (whatever the status: it is not looked at): the GET
\* of /api/users is sent, then setCurrentStats(...) and setLoading(false)
PostSettled(r) ==
    /\ runs[r].pc = "post"
    /\ posts[r] \in {"200", "400", "500"}
    /\ gets' = gets \cup {r}
    /\ currentStats' = StatsOf(runs[r])
    /\ loading' = FALSE
    /\ runs' = [runs EXCEPT ![r] = Gone(@, "done")]
    /\ hist' = [hist EXCEPT ![r].delivered = TRUE]
    /\ UNCHANGED <<username, userStats, error, posts, db, files>>

\* SELECT user, edits FROM stats ORDER BY edits DESC: the orders the rows
\* of the table can come in
Listings ==
    LET n == Len(db)
    IN {[i \in 1..n |-> db[p[i]]] :
          p \in {f \in [1..n -> 1..n] :
                   /\ \A i \in 1..n : \A j \in 1..n : i # j => f[i] # f[j]
                   /\ \A i \in 1..n : \A j \in 1..n :
                        i < j => db[f[i]].edits >= db[f[j]].edits}}

\* a GET of /api/users (q = 0: the one sent on mount) is answered (the
\* handler's SELECT and the client's then-callback taken together) and
\* setUserStats(rows) runs, or it fails: the mount's catch sets [], the
\* later ones ignore it
UsersLoaded(q) ==
    /\ q \in gets
    /\ gets' = gets \ {q}
    /\ \/ \E rows \in Listings : userStats' = rows
       \/ userStats' = IF q = 0 THEN <<>> ELSE userStats
    /\ UNCHANGED <<username, currentStats, loading, error, runs, hist, posts, db, files>>

----------------------------------------------------------------------------
(* Specifications *)

RECURSIVE RowsOf(_)
\* a row of one edit for each user of U
RowsOf(U) ==
    IF U = {} THEN <<>>
    ELSE LET u == CHOOSE x \in U : TRUE
         IN <<[user |-> u, edits |-> 1]>> \o RowsOf(U \ {u})

\* the table and the CSV directory with a row of one edit for the users of U
Stored(U) ==
    [db |-> RowsOf(U),
     files |-> [u \in AllUsers |-> IF u \in U THEN <<2>> ELSE Absent]]

\* the state after the component mounted: the first GET of /api/users is
\* out; the server holds what earlier sessions left
InitOver(S) ==
    /\ username = ""
    /\ userStats = <<>>
    /\ currentStats = NullStats
    /\ loading = FALSE
    /\ error = NullErr
    /\ runs = [r \in AllRuns |-> IdleRun]
    /\ hist = [r \in AllRuns |-> NoHist]
    /\ posts = [r \in AllRuns |-> "none"]
    /\ gets = {0}
    /\ \E st \in S : db = st.db /\ files = st.files

\* the changesets served: one edit each at any second or without created_at,
\* and ones at EPOCH whose changes_count is absent or not a number
Served ==
    {Plain(t) : t \in Times}
    \cup {[Plain(EPOCH) EXCEPT !.created_at = Absent]}
    \cup {[Plain(t) EXCEPT !.changes_count = c] : t \in {EPOCH}, c \in {"", "x"}}
Nows == {MaxTime}
AnyResponse == Responses(Served)

Init == InitOver({Stored(OneUser)})

\* one invocation, one user, any response of the upstream
Next ==
    \/ SetUsername(OneUser)
    \/ ClickFetch(OneRun, Nows)
    \/ PeriodicRefresh(OneRun, Nows)
    \/ \E r \in OneRun : Respond(r, AnyResponse)
    \/ \E r \in OneRun : TimerFired(r)
    \/ \E r \in OneRun : ServerPostUser(r)
    \/ \E r \in OneRun : PostRejected(r)
    \/ \E r \in OneRun : PostSettled(r)
    \/ \E q \in OneRun \cup {0} : UsersLoaded(q)

Spec == Init /\ [][Next]_vars

\* responses arrive and timers fire: an awaited fetch or setTimeout of an
\* invocation is not left pending for ever
Fairness ==
    \A r \in OneRun : WF_vars(Respond(r, AnyResponse)) /\ WF_vars(TimerFired(r))

FairSpec == Init /\ [][Next]_vars /\ Fairness

\* well-formed pages of changesets at EPOCH, or a 404
ThinResponses ==
    {resp \in Responses({Plain(EPOCH)}) : resp.body.wf /\ resp.status \in {200, 404}}

\* the table holds a row for none, one or both of the users
InitConc == InitOver({Stored(U) : U \in SUBSET TwoUsers})

\* two invocations, two users
NextConc ==
    \/ SetUsername(TwoUsers)
    \/ ClickFetch(TwoRuns, Nows)
    \/ PeriodicRefresh(TwoRuns, Nows)
    \/ \E r \in TwoRuns : Respond(r, ThinResponses)
    \/ \E r \in TwoRuns : TimerFired(r)
    \/ \E r \in TwoRuns : ServerPostUser(r)
    \/ \E r \in TwoRuns : PostRejected(r)
    \/ \E r \in TwoRuns : PostSettled(r)
    \/ \E q \in TwoRuns \cup {0} : UsersLoaded(q)

SpecConc == InitConc /\ [][NextConc]_vars

\* new Date() a second after the last changeset served
LateNows == {MaxTime + 1}

\* well-formed pages of changesets: ones at EPOCH whose created_by tag is
\* missing or names an editor, and ones of any second from EPOCH to now
TaggedResponses ==
    {resp \in Responses({[Plain(EPOCH) EXCEPT !.created_by = g] :
                            g \in {<<>>, Josm, GoMap, ProtoKey}}
                        \cup {Plain(t) : t \in EPOCH..MaxTime + 1}) :
        resp.body.wf /\ resp.status = 200}

\* one invocation, one user, pages of tagged changesets
NextEditors ==
    \/ SetUsername(OneUser)
    \/ ClickFetch(OneRun, LateNows)
    \/ PeriodicRefresh(OneRun, LateNows)
    \/ \E r \in OneRun : Respond(r, TaggedResponses)
    \/ \E r \in OneRun : TimerFired(r)
    \/ \E r \in OneRun : ServerPostUser(r)
    \/ \E r \in OneRun : PostRejected(r)
    \/ \E r \in OneRun : PostSettled(r)
    \/ \E q \in OneRun \cup {0} : UsersLoaded(q)

SpecEditors == Init /\ [][NextEditors]_vars

\* new Date() of two invocations made at different times, both after the
\* last changeset of the dataset
TwoNows == {MaxTime, MaxTime + 1}

InitData == InitOver({Stored({u}) : u \in TwoUsers})

\* two invocations against an upstream that answers from an unchanging dataset
NextData ==
    \/ SetUsername(TwoUsers)
    \/ ClickFetch(TwoRuns, TwoNows)
    \/ PeriodicRefresh(TwoRuns, TwoNows)
    \/ \E r \in TwoRuns : Respond(r, {Listing(runs[r].user, runs[r].windowEnd)})
    \/ \E r \in TwoRuns : TimerFired(r)
    \/ \E r \in TwoRuns : ServerPostUser(r)
    \/ \E r \in TwoRuns : PostRejected(r)
    \/ \E r \in TwoRuns : PostSettled(r)
    \/ \E q \in TwoRuns \cup {0} : UsersLoaded(q)

SpecData == InitData /\ [][NextData]_vars

----------------------------------------------------------------------------
(* Properties *)

\* the loop of invocation r is over: Done (the POST is out or answered) or Failed
LoopOver(r) == runs[r].pc \in {"post", "done", "crashed", "failed"}
LoopDone(r) == runs[r].pc \in {"post", "done", "crashed"}

\* C1: whatever the upstream answers, an invocation whose loop is running
\* (awaiting a response or the rate-limit timer) eventually leaves the loop,
\* as Done or as Failed.
C1_Termination ==
    \A r \in OneRun : (runs[r].pc \in {"fetch", "wait"}) ~> LoopOver(r)

\* a loop that ended after at least two non-empty pages
C1_Witness == \E r \in OneRun : LoopOver(r) /\ hist[r].pages >= 2

\* C2: a first page that is well-formed and holds no changeset element makes
\* the invocation fail with NoContributions; no POST is sent, no stats are set.
C2_FirstPageEmptyFails ==
    \A r \in AllRuns :
        hist[r].firstEmpty =>
            /\ runs[r].pc = "failed"
            /\ hist[r].thrown = NoContributions
            /\ posts[r] = "none"
            /\ ~hist[r].delivered

\* C3: once a page with a success status had a body that is not well-formed,
\* the invocation has failed: it requests no further page and sends no POST.
C3_MalformedFails ==
    \A r \in AllRuns :
        hist[r].malformed => runs[r].pc = "failed" /\ posts[r] = "none"

\* C4: after one or more non-empty pages and then an empty page (all
\* well-formed, their changesets created inside the window asked for), the
\* loop is Done and the CSV has one line per record of those pages, besides
\* the header.
C4_RowsEqualRecords ==
    \A r \in AllRuns :
        (hist[r].conform /\ hist[r].pages >= 1 /\ hist[r].last = "empty") =>
            /\ LoopDone(r)
            /\ runs[r].pc = "post" => runs[r].csvLines - 1 = hist[r].recs

\* Done after two non-empty pages, one of them with two records
C4_Witness ==
    \E r \in AllRuns :
        /\ runs[r].pc = "post" /\ hist[r].conform /\ hist[r].last = "empty"
        /\ hist[r].pages = 2 /\ hist[r].recs = 3 /\ runs[r].csvLines = 4

\* C5: an invocation whose loop threw (404, another failure status, a
\* rejected fetch, NoContributions, an exception while folding) ends as Failed:
\* it sends no POST and sets no currentStats, whatever it folded before.
C5_FailedNotPersisted ==
    \A r \in AllRuns :
        hist[r].thrown # NullErr =>
            runs[r].pc = "failed" /\ posts[r] = "none" /\ ~hist[r].delivered

\* a failure after a page was folded
C5_Witness ==
    \E r \in AllRuns :
        runs[r].pc = "failed" /\ hist[r].pages >= 1 /\ hist[r].last = "http"

\* C6: at Done, edits is the sum of changesCount over the records of all
\* pages, a missing or unparseable changes_count counting 0 (stated for the
\* invocations that met no malformed body).
C6_TotalEdits ==
    \A r \in AllRuns :
        (runs[r].pc = "post" /\ ~hist[r].malformed) =>
            runs[r].edits = Num(hist[r].ccSum)

\* C7: a 404 fails the invocation with "Wrong username", on the first page
\* as on any other and whatever the body.
C7_NotFoundIsUnknownUser ==
    \A r \in AllRuns :
        hist[r].last = "404" =>
            runs[r].pc = "failed" /\ hist[r].thrown = WrongUsername

\* a 404 on the very first page
C7_Witness ==
    \E r \in AllRuns :
        hist[r].last = "404" /\ hist[r].pages = 0 /\ error = WrongUsername

\* C8: while two invocations are in flight no step writes loading, error or
\* currentStats (the invocations share no state but the table of the server).
C8_NoSharedState ==
    [][(\E r \in AllRuns : \E q \in AllRuns : r # q /\ InFlight(r) /\ InFlight(q))
          => UNCHANGED <<loading, error, currentStats>>]_vars

\* C9: when the loop ended Done on well-formed pages and the POST then got a
\* 500 or no answer at all, the invocation, once over, has set currentStats,
\* has set loading back to false and has left an error for the caller to see.
C9_PersistFailureSurfaced ==
    \A r \in OneRun :
        (/\ hist[r].conform /\ hist[r].pages >= 1
         /\ posts[r] \in {"500", "lost"} /\ runs[r].pc \in {"done", "crashed"}) =>
            /\ hist[r].delivered
            /\ ~loading
            /\ error # NullErr

\* C10: an invocation has at most one fetch(url) pending, and a fetch(url)
\* that follows an answered one is sent only when the rate-limit timer fired.
C10_SequentialRateLimited ==
    \A r \in AllRuns :
        /\ hist[r].inflight <= 1
        /\ runs[r].pc = "fetch" => hist[r].inflight = 1 /\ hist[r].gap \in {"none", "waited"}

\* the second request of an invocation is pending, after the timer
C10_Witness ==
    \E r \in AllRuns : runs[r].pc = "fetch" /\ hist[r].gap = "waited" /\ hist[r].pages >= 1

\* the sum of the counts of a histogram
RECURSIVE SumValues(_)
SumValues(f) ==
    IF DOMAIN f = {} THEN 0
    ELSE LET k == CHOOSE x \in DOMAIN f : TRUE
         IN f[k] + SumValues([x \in DOMAIN f \ {k} |-> f[x]])

\* C11: while an invocation runs, the counts of its editor histogram sum to
\* the number of changeset elements its pages held so far, and so does the
\* number of CSV lines after the header.
C11_HistogramAndRows ==
    \A r \in AllRuns :
        InFlight(r) =>
            /\ SumValues(runs[r].editors) = hist[r].seen
            /\ runs[r].csvLines - 1 = hist[r].seen

\* C12: two invocations for the same user whose loops ended Done on the same
\* unchanging dataset hold the same edits, the same number of days, the same
\* editor histogram and the same number of CSV lines, whatever new Date()
\* gave each of them.
C12_Idempotent ==
    \A r \in AllRuns : \A q \in AllRuns :
        (runs[r].pc = "post" /\ runs[q].pc = "post" /\ runs[r].user = runs[q].user) =>
            /\ runs[r].edits = runs[q].edits
            /\ Cardinality(runs[r].daySet) = Cardinality(runs[q].daySet)
            /\ runs[r].editors = runs[q].editors
            /\ runs[r].csvLines = runs[q].csvLines

\* two invocations for one user started at different times, both Done after
\* two pages
C12_Witness ==
    \E r \in AllRuns : \E q \in AllRuns :
        /\ runs[r].pc = "post" /\ runs[q].pc = "post" /\ runs[r].user = runs[q].user
        /\ hist[r].start < hist[q].start
        /\ hist[r].pages = 2 /\ hist[q].pages = 2

\* C13: the table never holds two rows of one user, only an accepted POST
\* changes it, and after an accepted POST the one row of its user holds the
\* edits of that POST while the rows of the other users are as before.
C13_UpsertLastWriteWins ==
    [][/\ \A i \in 1..Len(db') : \A j \in 1..Len(db') :
             db'[i].user = db'[j].user => i = j
       /\ db' # db => \E r \in AllRuns : posts[r] = "sent" /\ posts'[r] \in {"200", "dropped"}
       /\ \A r \in AllRuns :
             (posts[r] = "sent" /\ posts'[r] \in {"200", "dropped"}) =>
                /\ \E i \in 1..Len(db') :
                      db'[i] = [user |-> runs[r].user, edits |-> runs[r].edits[1]]
                /\ \A i \in 1..Len(db) :
                      db[i].user # runs[r].user => \E j \in 1..Len(db') : db'[j] = db[i]]_vars

\* both invocations wrote the row of one user, the table holding the edits
\* of one of them and no longer those of the other
C13_Witness ==
    \E r \in AllRuns : \E q \in AllRuns :
        /\ r # q /\ posts[r] = "200" /\ posts[q] = "200"
        /\ runs[r].user = runs[q].user
        /\ runs[r].pc = "post" /\ runs[q].pc = "post"
        /\ runs[r].edits # runs[q].edits
        /\ Len(db) = 1 /\ db[1].edits = runs[q].edits[1]

\* C14: once fetch(url) rejected or was answered with a failure status other
\* than 404, the invocation has failed with that error ("Failed to fetch" or
\* the HTTP status) and has no further fetch(url) pending.
C14_FetchFailedNoRetry ==
    \A r \in AllRuns :
        hist[r].last \in {"http", "rejected"} =>
            /\ runs[r].pc = "failed"
            /\ hist[r].thrown = (IF hist[r].last = "http" THEN HttpMsg(500) ELSE FailedToFetch)
            /\ hist[r].inflight = 0
            /\ posts[r] = "none"

\* the fetch of the second page was rejected
C14_Witness ==
    \E r \in AllRuns :
        /\ hist[r].last = "rejected" /\ hist[r].pages = 1
        /\ runs[r].pc = "failed" /\ error = FailedToFetch

\* C15: at Done, the size of daySet is the number of distinct calendar days
\* among the created_at values of the changesets of all pages, and that is
\* the days of the stats the invocation then shows.
C15_ActiveDays ==
    /\ \A r \in AllRuns :
          runs[r].pc = "post" =>
              Cardinality(runs[r].daySet)
                  = Cardinality({t[1] \div DayLen : t \in hist[r].stamps})
    /\ \A r \in AllRuns :
          (runs[r].pc = "done" /\ currentStats # NullStats /\ ~loading) =>
              currentStats[1].days
                  = Cardinality({t[1] \div DayLen : t \in hist[r].stamps})

\* Done after pages whose changesets were created at three seconds of two days
C15_Witness ==
    \E r \in AllRuns :
        /\ runs[r].pc = "post"
        /\ Cardinality(hist[r].stamps) = 3
        /\ Cardinality(runs[r].daySet) = 2

\* C16: while an invocation runs, every key of its histogram is the name
\* derived from the created_by value of a changeset it folded ("JOSM/1.5
\* (12345)" gives "JOSM", "Go Map!!/1.2" gives "Go"), never the value itself,
\* and the changesets of such a value are counted under that name, those
\* without the tag under "unknown".
C16_EditorName ==
    LET name == (<<>> :> <<"u", "n", "k">>) @@ (Josm :> <<"J">>)
                @@ (GoMap :> <<"G">>) @@ (ProtoKey :> <<"_", "p">>)
    IN \A r \in AllRuns :
          InFlight(r) =>
              /\ DOMAIN hist[r].tags \subseteq DOMAIN name
              /\ DOMAIN runs[r].editors \subseteq {name[v] : v \in DOMAIN hist[r].tags}
              /\ \A v \in DOMAIN hist[r].tags \cap {<<>>, Josm, GoMap} :
                    /\ name[v] \in DOMAIN runs[r].editors
                    /\ runs[r].editors[name[v]] = hist[r].tags[v]

\* two pages folded that held changesets of both editors and ones without the tag
C16_Witness ==
    \E r \in AllRuns :
        /\ InFlight(r) /\ hist[r].pages = 2
        /\ {<<>>, Josm, GoMap} \subseteq DOMAIN hist[r].tags
        /\ \E v \in DOMAIN hist[r].tags : hist[r].tags[v] = 2

\* C17: a turn of the loop that folds a page and goes on leaves windowEnd at
\* least a second earlier than the window of its request, whatever the page
\* held, and the next request is sent with that windowEnd.
C17_WindowProgress ==
    [][\A r \in AllRuns :
          /\ (runs[r].pc = "fetch" /\ runs'[r].pc = "wait") =>
                 runs'[r].windowEnd <= runs[r].windowEnd - 1
          /\ (runs[r].pc = "wait" /\ runs'[r].pc = "fetch") =>
                 runs'[r].windowEnd = runs[r].windowEnd]_vars

\* the second request is out, its window two seconds before that of the
\* first, after one page of changesets
C17_Witness ==
    \E r \in AllRuns :
        /\ runs[r].pc = "fetch" /\ hist[r].pages = 1 /\ hist[r].seen >= 1
        /\ runs[r].windowEnd = hist[r].start - 2

\* C18: while every page held only changesets created in the window its
\* request asked for, windowEnd lies before the created_at of every changeset
\* folded so far, and no page held a created_at that an earlier page held: no
\* changeset was folded twice.
C18_NoDuplicates ==
    \A r \in AllRuns :
        (InFlight(r) /\ hist[r].conform) =>
            /\ \A t \in hist[r].stamps : runs[r].windowEnd < t[1]
            /\ Cardinality(hist[r].stamps) = hist[r].spread

\* two pages folded, the first with two changesets of one second
C18_Witness ==
    \E r \in AllRuns :
        /\ InFlight(r) /\ hist[r].conform
        /\ hist[r].pages = 2 /\ hist[r].seen = 3 /\ hist[r].spread = 2

\* C19: from one step of a running invocation to the next (its pages being
\* well-formed), edits is a number that is at least 0 and does not get lower,
\* daySet loses no day, no count of the histogram gets lower and the CSV
\* loses no line.
C19_Monotone ==
    [][\A r \in AllRuns :
          (InFlight(r) /\ runs'[r].pc \in {"fetch", "wait", "post"} /\ ~hist'[r].malformed) =>
              /\ runs[r].edits # NaN /\ runs'[r].edits # NaN
              /\ runs'[r].edits[1] >= runs[r].edits[1]
              /\ runs[r].edits[1] >= 0
              /\ Cardinality(runs'[r].daySet) >= Cardinality(runs[r].daySet)
              /\ \A k \in DOMAIN runs[r].editors :
                    k \in DOMAIN runs'[r].editors /\ runs'[r].editors[k] >= runs[r].editors[k]
              /\ runs'[r].csvLines >= runs[r].csvLines]_vars

\* C20: no two invocations of fetchChangesets for the same user are in
\* flight at once, whether the Fetch button or the periodic refresh made them.
C20_OneRunPerUser ==
    \A r \in AllRuns : \A q \in AllRuns :
        (r # q /\ InFlight(r) /\ InFlight(q)) => runs[r].user # runs[q].user

\* the changesets of a user created in the second of its i-th changeset
SameSecond(user, i) ==
    {j \in 1..Len(DataOf(user)) : DataOf(user)[j].created_at = DataOf(user)[i].created_at}

\* C21: against an upstream that answers with the newest changesets of the
\* window, a page at most, and holds no more changesets of one second than a
\* page takes, an invocation that is Done has folded every changeset of the
\* user: as many as the dataset holds, each second of it among them.
C21_Complete ==
    \A r \in AllRuns :
        (/\ runs[r].pc = "post"
         /\ \A i \in 1..Len(DataOf(runs[r].user)) :
               Cardinality(SameSecond(runs[r].user, i)) <= PageLimit) =>
            /\ hist[r].seen = Len(DataOf(runs[r].user))
            /\ runs[r].csvLines - 1 = Len(DataOf(runs[r].user))
            /\ hist[r].stamps = {DataOf(runs[r].user)[i].created_at :
                                    i \in 1..Len(DataOf(runs[r].user))}

\* C21 as amended: an invocation that is Done has folded every changeset
\* whose second no other changeset of the user shares, and has folded no
\* changeset twice: no second on two pages, per created_by value no more
\* changesets than the dataset holds, one CSV line for each.
C21_UnsharedSecondsComplete ==
    \A r \in AllRuns :
        runs[r].pc = "post" =>
            LET data == DataOf(runs[r].user)
            IN /\ \A i \in 1..Len(data) :
                     SameSecond(runs[r].user, i) = {i} => data[i].created_at \in hist[r].stamps
               /\ Cardinality(hist[r].stamps) = hist[r].spread
               /\ \A v \in DOMAIN hist[r].tags :
                     hist[r].tags[v] <= Cardinality({i \in 1..Len(data) : data[i].created_by = v})
               /\ hist[r].seen <= Len(data)
               /\ runs[r].csvLines - 1 = hist[r].seen

\* Done after two pages: a changeset alone in its second was folded from the
\* second page, one that shares its second was skipped
C21_Witness ==
    \E r \in AllRuns :
        /\ runs[r].pc = "post" /\ hist[r].pages = 2
        /\ hist[r].seen = Len(DataOf(runs[r].user)) - 1
        /\ \E i \in 1..Len(DataOf(runs[r].user)) :
              /\ SameSecond(runs[r].user, i) = {i}
              /\ DataOf(runs[r].user)[i].created_at \in hist[r].stamps
              /\ DataOf(runs[r].user)[i].created_at[1] = EPOCH

\* C22: loading is true in every state in which an invocation is in flight
\* (so Input and Button are disabled), also when several are.
C22_LoadingWhileInFlight ==
    \A r \in AllRuns : InFlight(r) => loading

\* C23: when no invocation is in flight and one has finished (none having
\* ended on a rejected POST, those Done having folded a page), exactly one of
\* error and currentStats is set.
C23_ErrorXorStats ==
    (/\ \A r \in AllRuns : ~InFlight(r) /\ runs[r].pc # "crashed"
     /\ \A r \in AllRuns : runs[r].pc = "done" => hist[r].pages >= 1
     /\ \E r \in AllRuns : runs[r].pc \in {"done", "failed"}) =>
        (error # NullErr) # (currentStats # NullStats)

\* C24: a POST /api/user that the handler does not refuse (400, 500) is
\* answered with success and leaves the row and the CSV file of its user as
\* that request gave them (stated for the POSTs of invocations whose pages
\* were well-formed); and no user has a row without a CSV file.
C24_RowAndExportTogether ==
    [][/\ \A r \in AllRuns :
             (/\ posts[r] = "sent" /\ posts'[r] \notin {"sent", "lost", "400", "500"}
              /\ hist[r].conform /\ hist[r].pages >= 1) =>
                /\ posts'[r] = "200"
                /\ \E i \in 1..Len(db') :
                      db'[i] = [user |-> runs[r].user, edits |-> runs[r].edits[1]]
                /\ files'[runs[r].user] = <<runs[r].csvLines>>
       /\ \A i \in 1..Len(db') : files'[db'[i].user] # Absent]_vars

====
